---- MODULE Spec2Model ----
(***************************************************************************)
(* State-machine model of the FSI orchestration of CBC.Solve (fsi package):*)
(*   - FSISolver.solve   (fsisolver.py)    the outer adaptive loop         *)
(*   - solve_primal      (primalsolver.py) time stepping + coupling loop   *)
(*   - FluidProblem / StructureProblem / MeshProblem (subproblems.py)      *)
(*   - StructureProblem.update_fluid_stress on a discrete interface        *)
(*                                                                         *)
(* Abstractions.  Fields (velocity, displacement, coordinates) are single  *)
(* integers and the vector norm is the absolute value.  Times are integers *)
(* (one unit = the smallest step of the run), so "t1 > T - DOLFIN_EPS" is  *)
(* "t1 >= T".  Goal-functional values are even integers, which makes the   *)
(* trapezoidal term 0.5*dt*(old + new) an exact integer.  The black-box    *)
(* physics solves (F.step, S.step, M.step), the user functional, the error *)
(* estimator and the problem's mode flags return values chosen             *)
(* nondeterministically from small sets.  The adapters are taken to be     *)
(* constructed as solve_primal constructs them, in their initial state.    *)
(***************************************************************************)
EXTENDS Integers, Sequences, FiniteSets, TLC

\* ------------------------------------------------------------------ bounds
MaxT       == 3    \* end times T range over 1..MaxT
MaxDt      == 2    \* initial / adaptive step sizes range over 1..MaxDt
MaxIter    == 2    \* maximum_iterations ranges over 0..MaxIter
MaxDisp    == 1    \* field values range over 0..MaxDisp
MaxGoal    == 1    \* functional values range over {0, 2, .., 2*MaxGoal}
MaxItertol == 2    \* per-step coupling tolerances range over 1..MaxItertol
MaxErr     == 1    \* error and E_h range over 0..MaxErr
MaxTol     == 0    \* tolerance ranges over -1..MaxTol
MaxST      == 2    \* stability factors range over 1..MaxST
MaxWh      == 1    \* w_h ranges over 1..MaxWh
MaxOuter   == 2    \* cap on the number of outer (refinement) iterations

Disp       == 0 .. MaxDisp
GoalValues == {2 * k : k \in 0 .. MaxGoal}
Unbound    == << >>      \* a Python name not (yet) bound / None
Bound(v)   == << v >>
Val(b)     == b[1]

Min(a, b)  == IF a < b THEN a ELSE b
\* norm(U_S0.vector()) on the scalar abstraction
Norm(x)    == IF x < 0 THEN 0 - x ELSE x
\* reference coordinates X of Omega_F
RefCoord   == 0

VARIABLES
    parameters,     \* the parameters dictionary (read only)
    problem,        \* the problem: end_time, initial conditions, mesh
    \* ---- FSISolver.solve
    solve_pc,       \* position in FSISolver.solve
    ST,             \* stability factor (local of solve)
    goal_functional,\* local of solve: None or the last primal result
    error, E_h, indicators, refined_mesh,
    next_mesh,      \* id of the next mesh object created by a refinement
    outer_log,      \* the calls made by solve, in order, per kind
    primal_args,    \* per solve_primal call: the ST and the mesh it was given
    estimates,      \* per estimate_error call: the error, E_h, ST returned
    returned,       \* the value returned by solve (Unbound until it returns)
    \* ---- solve_primal
    primal_pc,      \* position in solve_primal
    ST_arg,         \* the ST parameter of solve_primal
    t0, t1, dt, at_end, timestep_counter,
    integrated_goal_functional, old_goal_functional, p_goal_functional,
    iter, itertol, increment, U_S0,
    F, S, M,        \* the three subproblem adapters
    series,         \* times written by write_primal_data
    fsi_iter_rec,   \* last record of save_no_FSI_iter: <<t1, iter + 1>>
    goal_values,    \* functional values passed to save_goal_functional
    final_rec,      \* record of save_goal_functional_final
    dofs_rec,       \* record of save_dofs: <<timestep_counter>>
    calls,          \* F.step / S.step / M.step executions in this time step
    step_no,        \* number of time steps started in this primal solve
    primal_result,  \* value returned by solve_primal
    exception,      \* "none", or the exception that ended the run
    message,        \* the values formatted into the exception's message
    stage_log,      \* the calls made so far in the current time step
    \* ---- StructureProblem.update_fluid_stress on the discrete interface
    stress_pc,      \* position in update_fluid_stress / debug_stress_transfer
    traction_F,     \* nodal values of the fluid traction dot(Sigma_F, N_F)
    G_F,            \* dof vector of the projected traction (fluid numbering)
    G_S,            \* dof vector of the transferred traction (structure)
    integrals       \* the integrals I0, I1, I2 of debug_stress_transfer

solve_vars  == << solve_pc, ST, goal_functional, error, E_h, indicators,
                  refined_mesh, next_mesh, outer_log, primal_args, estimates,
                  returned >>
time_vars   == << t0, t1, dt, at_end, timestep_counter >>
goal_vars   == << integrated_goal_functional, old_goal_functional,
                  p_goal_functional, goal_values, fsi_iter_rec >>
iter_vars   == << iter, itertol, increment, U_S0, calls >>
adapters    == << F, S, M >>
out_vars    == << series, final_rec, dofs_rec, primal_result, step_no >>
primal_vars == << primal_pc, ST_arg, time_vars, goal_vars, iter_vars,
                  adapters, out_vars >>
stress_vars == << stress_pc, traction_F, G_F, G_S, integrals >>
vars        == << parameters, problem, solve_vars, primal_vars, exception,
                  message, stage_log, stress_vars >>

\* ------------------------------------------------------- the subproblems
\* FluidProblem.__init__: omega_F0 and omega_F1 are copies of Omega_F; the
\* mesh velocity w is a zero function.  w is kept as <<numerator, dt>>.
FluidInit ==
    [u0 |-> 0, u1 |-> 0, x0 |-> RefCoord, x1 |-> RefCoord, w |-> << 0, 1 >>]

\* StructureProblem.__init__: G_F, G_S are zero functions; the displacement
\* starts from the problem's initial condition.
StructureInit(prob) ==
    [u0 |-> prob.structure_initial, u1 |-> prob.structure_initial,
     G_S |-> << 0, 0 >>]

\* MeshProblem.__init__: u0, u1 and the boundary displacement are zero.
MeshInit == [u0 |-> 0, u1 |-> 0, displacement |-> 0]

\* FluidProblem.compute_fluid_stress(u_F, p_F, U_M): the Piola-mapped stress,
\* a function of the fluid solution and the mesh displacement.
ComputeFluidStress(u_F, U_M) == << u_F, U_M >>

\* StructureProblem.update_fluid_stress: G_F is the projection of the traction,
\* G_S is zeroed and receives G_F through add_f2s.
UpdateFluidStress(s, Sigma_F) == [s EXCEPT !.G_S = Sigma_F]

\* MeshProblem.update_structure_displacement: displacement is zeroed and
\* receives U_S through add_s2f.
UpdateStructureDisplacement(m, U_S) == [m EXCEPT !.displacement = U_S]

\* faulty variant: the previous geometry is moved along with the current one
UpdateMeshDisplacementMovingFrame(f, U_M, k) ==
    LET x1 == RefCoord + U_M
    IN  [f EXCEPT !.x0 = x1, !.x1 = x1, !.w = << x1 - f.x0, k >>]

\* FluidProblem.update_mesh_displacement: x1 = X + dofs, then the mesh
\* velocity w = (x1 - x0) / dt; omega_F0 is only read.
UpdateMeshDisplacement(f, U_M, k) ==
    LET x1 == RefCoord + U_M
    IN  [f EXCEPT !.x1 = x1, !.w = << x1 - f.x0, k >>]

\* FluidProblem.update_extra: omega_F0 := omega_F1
UpdateExtra(f) == [f EXCEPT !.x0 = f.x1]

\* MeshProblem.update(t): u0.assign(u1); returns u1
MeshUpdate(m) == [m EXCEPT !.u0 = m.u1]

\* faulty variant: the committed field is returned
MeshSolutionCommitted(m) == m.u0

\* MeshProblem.solution(): returns u1
MeshSolution(m) == m.u1

\* F.update(t1) and S.update(): the solver accepts the last step as the old state
Commit(a) == [a EXCEPT !.u0 = a.u1]

\* ---------------------------------------------------- solve_primal helpers
\* "if increment < itertol"
Converged(inc, tol) == inc < tol

\* "elif iter == maxiter - 1"
LastIteration(i, maxiter) == i = maxiter - 1

\* "for iter in range(maxiter)": is there an iteration number i
InRange(i, maxiter) == i < maxiter

\* faulty variant: a rectangle rule that uses only the new value
TrapezoidRectangle(k, old, new) == k * new

\* "0.5 * dt * (old_goal_functional + goal_functional)"
Trapezoid(k, old, new) == (k * (old + new)) \div 2

\* "t1 > T - DOLFIN_EPS" on integer times
AtEnd(t, T) == t >= T

\* compute_itertol (adaptivity): one positive scalar per time step
Itertols == 1 .. MaxItertol

\* compute_time_step (adaptivity): the step-size formula proposes k and the
\* step is cut so as not to pass the end time T.
ComputeTimeStep(k, t, T) ==
    IF k >= T - t THEN << T - t, TRUE >> ELSE << k, FALSE >>

\* -------------------------------------------------------------- solve_primal
\* lines 22-79: parameters, adapters, initial solution, time stepping set-up.
\* The three adapters are taken to exist after lines 53-55 (the calls there
\* pass one argument; StructureProblem.__init__ and MeshProblem.__init__ in
\* subproblems.py declare a second one, parameters).
PrimalStart ==
    /\ primal_pc = "start"
    /\ stage_log' = << >>
    /\ F' = FluidInit
    /\ S' = StructureInit(problem)
    /\ M' = MeshUpdate(MeshInit)
    /\ U_S0' = 0
    /\ series' = << 0 >>
    /\ t0' = 0
    /\ t1' = parameters.initial_timestep
    /\ dt' = parameters.initial_timestep
    /\ at_end' = FALSE
    /\ timestep_counter' = 0
    /\ integrated_goal_functional' = 0
    /\ old_goal_functional' = 0
    /\ p_goal_functional' = Unbound
    /\ goal_values' = {}
    /\ fsi_iter_rec' = Unbound
    /\ final_rec' = Unbound
    /\ dofs_rec' = Unbound
    /\ primal_result' = Unbound
    /\ step_no' = 0
    /\ primal_pc' = "step_begin"
    /\ UNCHANGED << parameters, problem, solve_vars, ST_arg, iter, itertol,
                    increment, calls, exception, message,
                    stress_vars >>

\* lines 82-94: a new time step starts; itertol is computed; the for loop is
\* entered (or skipped when range(maxiter) is empty)
PrimalStepBegin ==
    /\ primal_pc = "step_begin"
    /\ stage_log' = << >>
    /\ \E tol \in Itertols : itertol' = tol
    /\ iter' = 0
    /\ calls' = [F |-> 0, S |-> 0, M |-> 0]
    /\ step_no' = step_no + 1
    /\ primal_pc' = IF InRange(0, parameters.maximum_iterations)
                    THEN "F_step" ELSE "save"
    /\ UNCHANGED << parameters, problem, solve_vars, ST_arg, time_vars,
                    goal_vars, increment, U_S0, adapters, series, final_rec,
                    dofs_rec, primal_result, exception, message,
                    stress_vars >>

\* line 101: u_F, p_F = F.step(dt)
PrimalFluidStep ==
    /\ primal_pc = "F_step"
    /\ stage_log' = Append(stage_log, "F.step")
    /\ \E u \in Disp : F' = [F EXCEPT !.u1 = u]
    /\ calls' = [calls EXCEPT !.F = @ + 1]
    /\ primal_pc' = "FS_transfer"
    /\ UNCHANGED << parameters, problem, solve_vars, ST_arg, time_vars,
                    goal_vars, iter, itertol, increment, U_S0, S, M, out_vars,
                    exception, message,
                    stress_vars >>

\* faulty variant: the structure step is taken before the fluid stress of this
\* iteration has been transferred
PrimalStressTransferSkipped ==
    /\ primal_pc = "FS_transfer"
    /\ stage_log' = Append(stage_log, "S.step")
    /\ \E u \in Disp : S' = [S EXCEPT !.u1 = u]
    /\ calls' = [calls EXCEPT !.S = @ + 1]
    /\ primal_pc' = "SM_transfer"
    /\ UNCHANGED << parameters, problem, solve_vars, ST_arg, time_vars,
                    goal_vars, iter, itertol, increment, U_S0, F, M, out_vars,
                    exception, message, stress_vars >>

\* lines 106-107: Sigma_F = F.compute_fluid_stress(..); S.update_fluid_stress
PrimalStressTransfer ==
    /\ primal_pc = "FS_transfer"
    /\ stage_log' = stage_log \o << "F.compute_fluid_stress",
                                     "S.update_fluid_stress" >>
    /\ S' = UpdateFluidStress(S, ComputeFluidStress(F.u1, M.u1))
    /\ primal_pc' = "S_step"
    /\ UNCHANGED << parameters, problem, solve_vars, ST_arg, time_vars,
                    goal_vars, iter_vars, F, M, out_vars, exception, message,
                    stress_vars >>

\* line 112: U_S, P_S = S.step(dt)
PrimalStructureStep ==
    /\ primal_pc = "S_step"
    /\ stage_log' = Append(stage_log, "S.step")
    /\ \E u \in Disp : S' = [S EXCEPT !.u1 = u]
    /\ calls' = [calls EXCEPT !.S = @ + 1]
    /\ primal_pc' = "SM_transfer"
    /\ UNCHANGED << parameters, problem, solve_vars, ST_arg, time_vars,
                    goal_vars, iter, itertol, increment, U_S0, F, M, out_vars,
                    exception, message,
                    stress_vars >>

\* line 117: M.update_structure_displacement(U_S)
PrimalDisplacementTransfer ==
    /\ primal_pc = "SM_transfer"
    /\ stage_log' = Append(stage_log, "M.update_structure_displacement")
    /\ M' = UpdateStructureDisplacement(M, S.u1)
    /\ primal_pc' = "M_step"
    /\ UNCHANGED << parameters, problem, solve_vars, ST_arg, time_vars,
                    goal_vars, iter_vars, F, S, out_vars, exception, message,
                    stress_vars >>

\* line 122: U_M = M.step(dt)
PrimalMeshStep ==
    /\ primal_pc = "M_step"
    /\ stage_log' = Append(stage_log, "M.step")
    /\ \E u \in Disp : M' = [M EXCEPT !.u1 = u]
    /\ calls' = [calls EXCEPT !.M = @ + 1]
    /\ primal_pc' = "MF_transfer"
    /\ UNCHANGED << parameters, problem, solve_vars, ST_arg, time_vars,
                    goal_vars, iter, itertol, increment, U_S0, F, S, out_vars,
                    exception, message,
                    stress_vars >>

\* line 127: F.update_mesh_displacement(U_M, dt, num_smoothings)
PrimalMeshTransfer ==
    /\ primal_pc = "MF_transfer"
    /\ stage_log' = Append(stage_log, "F.update_mesh_displacement")
    /\ F' = UpdateMeshDisplacement(F, M.u1, dt)
    /\ primal_pc' = "increment"
    /\ UNCHANGED << parameters, problem, solve_vars, ST_arg, time_vars,
                    goal_vars, iter_vars, S, M, out_vars, exception, message,
                    stress_vars >>

\* lines 131-133: U_S0 -= U_S; increment = norm(U_S0); U_S0 = U_S
PrimalIncrement ==
    /\ primal_pc = "increment"
    /\ increment' = Norm(U_S0 - S.u1)
    /\ U_S0' = S.u1
    /\ primal_pc' = "check"
    /\ UNCHANGED << parameters, problem, solve_vars, ST_arg, time_vars,
                    goal_vars, iter, itertol, calls, adapters, out_vars,
                    exception, message, stage_log,
                    stress_vars >>

\* lines 139-157: converged; record the iteration count, evaluate and
\* integrate the goal functional, save it, leave the for loop
PrimalConverged ==
    /\ primal_pc = "check"
    /\ Converged(increment, itertol)
    /\ fsi_iter_rec' = Bound(<< t1, iter + 1 >>)
    /\ \E g \in GoalValues :
          /\ p_goal_functional' = Bound(g)
          /\ integrated_goal_functional' =
                 integrated_goal_functional
                   + Trapezoid(dt, old_goal_functional, g)
          /\ old_goal_functional' = g
          /\ goal_values' = goal_values \cup {g}
    /\ primal_pc' = "save"
    /\ UNCHANGED << parameters, problem, solve_vars, ST_arg, time_vars,
                    iter_vars, adapters, out_vars, exception, message, stage_log,
                    stress_vars >>

\* line 161: "FSI iteration failed to converge after %d iterations." % maxiter;
\* the message is kept as the record of the values formatted into it
FailureMessage(maxiter) == [iterations |-> maxiter]

\* lines 160-161: the last iteration did not converge: RuntimeError
PrimalFail ==
    /\ primal_pc = "check"
    /\ ~ Converged(increment, itertol)
    /\ LastIteration(iter, parameters.maximum_iterations)
    /\ exception' = "RuntimeError"
    /\ message' = FailureMessage(parameters.maximum_iterations)
    /\ primal_pc' = "raised"
    /\ UNCHANGED << parameters, problem, solve_vars, ST_arg, time_vars,
                    goal_vars, iter_vars, adapters, out_vars, stage_log,
                    stress_vars >>

\* lines 163-166 and 94: not converged, next iteration of the for loop
PrimalNextIteration ==
    /\ primal_pc = "check"
    /\ ~ Converged(increment, itertol)
    /\ ~ LastIteration(iter, parameters.maximum_iterations)
    /\ iter' = iter + 1
    /\ primal_pc' = IF InRange(iter + 1, parameters.maximum_iterations)
                    THEN "F_step" ELSE "save"
    /\ UNCHANGED << parameters, problem, solve_vars, ST_arg, time_vars,
                    goal_vars, itertol, increment, U_S0, calls, adapters,
                    out_vars, exception, message, stage_log,
                    stress_vars >>

\* lines 169-171: U = extract_solution(F, S, M); write_primal_data(U, t1, ..)
PrimalSave ==
    /\ primal_pc = "save"
    /\ stage_log' = Append(stage_log, "write_primal_data")
    /\ series' = Append(series, t1)
    /\ primal_pc' = "commit"
    /\ UNCHANGED << parameters, problem, solve_vars, ST_arg, time_vars,
                    goal_vars, iter_vars, adapters, final_rec, dofs_rec,
                    primal_result, step_no, exception, message,
                    stress_vars >>

\* faulty variant: the fluid housekeeping is done before the commit
PrimalCommitAfterExtra ==
    /\ primal_pc = "commit"
    /\ stage_log' = stage_log \o << "F.update_extra", "F.update", "S.update",
                                     "M.update" >>
    /\ F' = Commit(UpdateExtra(F))
    /\ S' = Commit(S)
    /\ M' = MeshUpdate(M)
    /\ timestep_counter' = timestep_counter + 1
    /\ primal_pc' = "end_check"
    /\ UNCHANGED << parameters, problem, solve_vars, ST_arg, t0, t1, dt,
                    at_end, goal_vars, iter_vars, out_vars, exception, message,
                    stress_vars >>

\* lines 174-179: F.update(t1); S.update(); M.update(t1); timestep_counter += 1
PrimalCommit ==
    /\ primal_pc = "commit"
    /\ stage_log' = stage_log \o << "F.update", "S.update", "M.update" >>
    /\ F' = Commit(F)
    /\ S' = Commit(S)
    /\ M' = MeshUpdate(M)
    /\ timestep_counter' = timestep_counter + 1
    /\ primal_pc' = "update_extra"
    /\ UNCHANGED << parameters, problem, solve_vars, ST_arg, t0, t1, dt,
                    at_end, goal_vars, iter_vars, out_vars, exception, message,
                    stress_vars >>

\* line 182: F.update_extra()
PrimalUpdateExtra ==
    /\ primal_pc = "update_extra"
    /\ stage_log' = Append(stage_log, "F.update_extra")
    /\ F' = UpdateExtra(F)
    /\ primal_pc' = "end_check"
    /\ UNCHANGED << parameters, problem, solve_vars, ST_arg, time_vars,
                    goal_vars, iter_vars, S, M, out_vars, exception, message,
                    stress_vars >>

\* lines 185-190: the end time is reached: save_dofs and leave the loop
PrimalAtEnd ==
    /\ primal_pc = "end_check"
    /\ at_end
    /\ dofs_rec' = Bound(timestep_counter)
    /\ primal_pc' = "finalize"
    /\ UNCHANGED << parameters, problem, solve_vars, ST_arg, time_vars,
                    goal_vars, iter_vars, adapters, series, final_rec,
                    primal_result, step_no, exception, message, stage_log,
                    stress_vars >>

\* faulty variant: the constant time step is not cut at the end time
PrimalNextUniformUnclipped ==
    /\ primal_pc = "end_check"
    /\ ~ at_end
    /\ parameters.uniform_timestep
    /\ t0' = t1
    /\ t1' = t1 + dt
    /\ dt' = t1' - t0'
    /\ at_end' = AtEnd(t1', problem.end_time)
    /\ primal_pc' = "step_begin"
    /\ UNCHANGED << parameters, problem, solve_vars, ST_arg, timestep_counter,
                    goal_vars, iter_vars, adapters, out_vars, exception,
                    message, stage_log, stress_vars >>

\* lines 193-197: constant time step
PrimalNextUniform ==
    /\ primal_pc = "end_check"
    /\ ~ at_end
    /\ parameters.uniform_timestep
    /\ t0' = t1
    /\ t1' = Min(t1 + dt, problem.end_time)
    /\ dt' = t1' - t0'
    /\ at_end' = AtEnd(t1', problem.end_time)
    /\ primal_pc' = "step_begin"
    /\ UNCHANGED << parameters, problem, solve_vars, ST_arg, timestep_counter,
                    goal_vars, iter_vars, adapters, out_vars, exception, message, stage_log,
                    stress_vars >>

\* lines 200-204: adaptive time step from the residual and ST
PrimalNextAdaptive ==
    /\ primal_pc = "end_check"
    /\ ~ at_end
    /\ ~ parameters.uniform_timestep
    /\ \E k \in 1 .. MaxDt :
          LET r == ComputeTimeStep(k, t1, problem.end_time)
          IN  /\ dt' = r[1]
              /\ at_end' = r[2]
              /\ t0' = t1
              /\ t1' = t1 + r[1]
    /\ primal_pc' = "step_begin"
    /\ UNCHANGED << parameters, problem, solve_vars, ST_arg, timestep_counter,
                    goal_vars, iter_vars, adapters, out_vars, exception, message, stage_log,
                    stress_vars >>

\* lines 207-214: save_goal_functional_final(goal_functional, ..) and return
\* goal_functional; the name is unbound when no iteration ever converged.
PrimalReturn ==
    /\ primal_pc = "finalize"
    /\ IF p_goal_functional = Unbound
       THEN /\ exception' = "NameError"
            /\ message' = [name |-> "goal_functional"]
            /\ primal_pc' = "raised"
            /\ UNCHANGED << final_rec, primal_result >>
       ELSE /\ final_rec' = Bound(<< Val(p_goal_functional),
                                     integrated_goal_functional >>)
            /\ primal_result' = p_goal_functional
            /\ primal_pc' = "returned"
            /\ UNCHANGED << exception, message >>
    /\ UNCHANGED << parameters, problem, solve_vars, ST_arg, time_vars,
                    goal_vars, iter_vars, adapters, series, dofs_rec, step_no,
                    stage_log, stress_vars >>

NextPrimal ==
    \/ PrimalStart
    \/ PrimalStepBegin
    \/ PrimalFluidStep
    \/ PrimalStressTransfer
    \/ PrimalStructureStep
    \/ PrimalDisplacementTransfer
    \/ PrimalMeshStep
    \/ PrimalMeshTransfer
    \/ PrimalIncrement
    \/ PrimalConverged
    \/ PrimalFail
    \/ PrimalNextIteration
    \/ PrimalSave
    \/ PrimalCommit
    \/ PrimalUpdateExtra
    \/ PrimalAtEnd
    \/ PrimalNextUniform
    \/ PrimalNextAdaptive
    \/ PrimalReturn

\* ------------------------------------------------------ FSISolver.solve
\* faulty variant: strict comparison of the error with the tolerance
ErrorStrictlySmaller(err, tol) == err < tol

\* "if error <= tolerance"
ErrorSmallEnough(err, tol) == err <= tol

\* "mesh_tolerance = w_h * tolerance"
MeshTolerance(w, tol) == w * tol

\* faulty variant: strict comparison of E_h with the mesh tolerance
MeshErrorStrictlySmaller(eh, mtol) == eh < mtol

\* "if E_h <= mesh_tolerance"
MeshErrorSmallEnough(eh, mtol) == eh <= mtol

\* faulty variant: uniform refinement whenever the test mode is on
UniformRefinementInTestMode(convergence_test, estimate) == convergence_test

\* "if self.problem.convergence_test() and not self.problem.estimate_error()"
UniformRefinement(convergence_test, estimate) == convergence_test /\ ~ estimate

\* number of the outer iteration in progress ("while True", line 48)
OuterIteration == Len(outer_log.save_mesh) + 1

\* line 43: initial guess for the stability factor
InitialST == 1

\* lines 51-53: goal_functional = solve_primal(self.problem, parameters, ST)
SolveCallPrimal ==
    /\ solve_pc = "primal"
    /\ primal_pc = "idle"
    /\ parameters.solve_primal
    /\ Len(outer_log.save_mesh) < MaxOuter
    /\ primal_pc' = "start"
    /\ ST_arg' = ST
    /\ primal_args' = Append(primal_args, [ST |-> ST, mesh |-> problem.mesh])
    /\ UNCHANGED << parameters, problem, solve_pc, ST, goal_functional, error,
                    E_h, indicators, refined_mesh, next_mesh, outer_log,
                    estimates, returned, time_vars, goal_vars, iter_vars,
                    adapters, out_vars, exception, message, stage_log,
                    stress_vars >>

\* faulty variant: the value returned by solve_primal is dropped
SolvePrimalReturnedUnbound ==
    /\ solve_pc = "primal"
    /\ primal_pc = "returned"
    /\ outer_log' = [outer_log EXCEPT
                        !.primal_results = Append(@, Val(primal_result))]
    /\ primal_pc' = "idle"
    /\ solve_pc' = "dual"
    /\ UNCHANGED << parameters, problem, ST, goal_functional, error, E_h,
                    indicators, refined_mesh, next_mesh, primal_args, estimates,
                    returned, ST_arg, time_vars, goal_vars, iter_vars, adapters,
                    out_vars, exception, message, stage_log,
                    stress_vars >>

\* line 53: solve_primal returned; its value is bound to goal_functional.
\* The frame of solve_primal (its locals and the adapters it created) is gone;
\* the storage records describe the primal solve in progress and are cleared.
SolvePrimalReturned ==
    /\ solve_pc = "primal"
    /\ primal_pc = "returned"
    /\ stage_log' = << >>
    /\ goal_functional' = primal_result
    /\ outer_log' = [outer_log EXCEPT
                        !.primal_results = Append(@, Val(primal_result))]
    /\ primal_pc' = "idle"
    /\ solve_pc' = "dual"
    /\ ST_arg' = InitialST
    /\ t0' = 0 /\ t1' = 0 /\ dt' = 0 /\ at_end' = FALSE
    /\ timestep_counter' = 0
    /\ integrated_goal_functional' = 0 /\ old_goal_functional' = 0
    /\ p_goal_functional' = Unbound
    /\ iter' = 0 /\ itertol' = 1 /\ increment' = 0 /\ U_S0' = 0
    /\ F' = FluidInit /\ S' = StructureInit(problem) /\ M' = MeshInit
    /\ calls' = [F |-> 0, S |-> 0, M |-> 0]
    /\ step_no' = 0
    /\ primal_result' = Unbound
    /\ series' = << >> /\ fsi_iter_rec' = Unbound /\ goal_values' = {}
    /\ final_rec' = Unbound /\ dofs_rec' = Unbound
    /\ UNCHANGED << parameters, problem, ST, error, E_h, indicators,
                    refined_mesh, next_mesh, primal_args, estimates,
                    returned, exception, message,
                    stress_vars >>

\* faulty variant: solve swallows the exception and carries on
SolvePrimalRaisedCaught ==
    /\ solve_pc = "primal"
    /\ primal_pc = "raised"
    /\ solve_pc' = "dual"
    /\ primal_pc' = "idle"
    /\ UNCHANGED << parameters, problem, ST, goal_functional, error, E_h,
                    indicators, refined_mesh, next_mesh, outer_log, primal_args,
                    estimates, returned, ST_arg, time_vars, goal_vars,
                    iter_vars, adapters, out_vars, exception, message, stage_log,
                    stress_vars >>

\* line 53: solve_primal raised; solve has no handler, the exception leaves it
SolvePrimalRaised ==
    /\ solve_pc = "primal"
    /\ primal_pc = "raised"
    /\ solve_pc' = "raised"
    /\ primal_pc' = "idle"
    /\ UNCHANGED << parameters, problem, ST, goal_functional, error, E_h,
                    indicators, refined_mesh, next_mesh, outer_log, primal_args,
                    estimates, returned, ST_arg, time_vars, goal_vars,
                    iter_vars, adapters, out_vars, exception, message, stage_log,
                    stress_vars >>

\* lines 55-56: "Not solving primal problem"
SolveSkipPrimal ==
    /\ solve_pc = "primal"
    /\ primal_pc = "idle"
    /\ ~ parameters.solve_primal
    /\ Len(outer_log.save_mesh) < MaxOuter
    /\ solve_pc' = "dual"
    /\ UNCHANGED << parameters, problem, ST, goal_functional, error, E_h,
                    indicators, refined_mesh, next_mesh, outer_log, primal_args,
                    estimates, returned, primal_vars, exception, message, stage_log,
                    stress_vars >>

\* lines 59-64: solve_dual(self.problem, parameters), or not
SolveDual ==
    /\ solve_pc = "dual"
    /\ outer_log' = IF parameters.solve_dual
                    THEN [outer_log EXCEPT !.solve_dual = @ + 1]
                    ELSE outer_log
    /\ solve_pc' = "estimate"
    /\ UNCHANGED << parameters, problem, ST, goal_functional, error, E_h,
                    indicators, refined_mesh, next_mesh, primal_args, estimates,
                    returned, primal_vars, exception, message, stage_log,
                    stress_vars >>

\* lines 67-70: error, indicators, ST, E_h = estimate_error(..)
SolveEstimate ==
    /\ solve_pc = "estimate"
    /\ parameters.estimate_error
    /\ \E e \in 0 .. MaxErr, eh \in 0 .. MaxErr, st \in 1 .. MaxST :
          /\ error' = e
          /\ E_h' = Bound(eh)
          /\ ST' = st
          /\ estimates' = Append(estimates,
                                 [error |-> e, E_h |-> eh, ST |-> st])
          /\ outer_log' = [outer_log EXCEPT !.errors = Append(@, e)]
    /\ indicators' = Bound(Len(estimates) + 1)
    /\ solve_pc' = "check"
    /\ UNCHANGED << parameters, problem, goal_functional, refined_mesh,
                    next_mesh, primal_args, returned, primal_vars,
                    exception, message, stage_log,
                    stress_vars >>

\* lines 71-73: "Not estimating error": error = 0.0
SolveSkipEstimate ==
    /\ solve_pc = "estimate"
    /\ ~ parameters.estimate_error
    /\ error' = 0
    /\ outer_log' = [outer_log EXCEPT !.errors = Append(@, 0)]
    /\ solve_pc' = "check"
    /\ UNCHANGED << parameters, problem, ST, goal_functional, E_h, indicators,
                    refined_mesh, next_mesh, primal_args, estimates,
                    returned, primal_vars, exception, message, stage_log,
                    stress_vars >>

\* lines 77-79 and 109-113: the error is small enough: break, return
SolveConverged ==
    /\ solve_pc = "check"
    /\ ErrorSmallEnough(error, parameters.tolerance)
    /\ returned' = Bound(goal_functional)
    /\ solve_pc' = "returned"
    /\ UNCHANGED << parameters, problem, ST, goal_functional, error, E_h,
                    indicators, refined_mesh, next_mesh, outer_log, primal_args,
                    estimates, primal_vars, exception, message, stage_log,
                    stress_vars >>

\* lines 80-82: "Error too large, need to refine"
SolveErrorTooLarge ==
    /\ solve_pc = "check"
    /\ ~ ErrorSmallEnough(error, parameters.tolerance)
    /\ solve_pc' = "check_mesh"
    /\ UNCHANGED << parameters, problem, ST, goal_functional, error, E_h,
                    indicators, refined_mesh, next_mesh, outer_log, primal_args,
                    estimates, returned, primal_vars, exception, message, stage_log,
                    stress_vars >>

\* line 87 when estimate_error never ran: the name E_h is not bound
SolveMeshErrorUnbound ==
    /\ solve_pc = "check_mesh"
    /\ E_h = Unbound
    /\ exception' = "NameError"
    /\ message' = [name |-> "E_h"]
    /\ solve_pc' = "raised"
    /\ UNCHANGED << parameters, problem, ST, goal_functional, error, E_h,
                    indicators, refined_mesh, next_mesh, outer_log, primal_args,
                    estimates, returned, primal_vars, stage_log, stress_vars >>

\* faulty variant: the freeze branch re-initializes the problem meshes
SolveFreezeReinit ==
    /\ solve_pc = "check_mesh"
    /\ E_h # Unbound
    /\ MeshErrorSmallEnough(Val(E_h),
                            MeshTolerance(parameters.w_h, parameters.tolerance))
    /\ refined_mesh' = problem.mesh
    /\ outer_log' = [outer_log EXCEPT
                        !.init_meshes = Append(@, [it |-> OuterIteration,
                                                   mesh |-> problem.mesh])]
    /\ solve_pc' = "save_mesh"
    /\ UNCHANGED << parameters, problem, ST, goal_functional, error, E_h,
                    indicators, next_mesh, primal_args, estimates,
                    returned, primal_vars, exception, message, stage_log,
                    stress_vars >>

\* lines 86-89: "Freezing current mesh": refined_mesh = self.problem.mesh()
SolveFreeze ==
    /\ solve_pc = "check_mesh"
    /\ E_h # Unbound
    /\ MeshErrorSmallEnough(Val(E_h),
                            MeshTolerance(parameters.w_h, parameters.tolerance))
    /\ refined_mesh' = problem.mesh
    /\ solve_pc' = "save_mesh"
    /\ UNCHANGED << parameters, problem, ST, goal_functional, error, E_h,
                    indicators, next_mesh, outer_log, primal_args, estimates,
                    returned, primal_vars, exception, message, stage_log,
                    stress_vars >>

\* lines 90-102: "Refining mesh": refine or refine_mesh, then init_meshes
SolveRefine ==
    /\ solve_pc = "check_mesh"
    /\ E_h # Unbound
    /\ ~ MeshErrorSmallEnough(Val(E_h),
                              MeshTolerance(parameters.w_h, parameters.tolerance))
    /\ \E ct \in BOOLEAN, pe \in BOOLEAN :
          outer_log' =
              [outer_log EXCEPT
                 !.refine = Append(@,
                     [it |-> OuterIteration,
                      uniform |-> UniformRefinement(ct, pe),
                      convergence_test |-> ct, estimate_error |-> pe,
                      mesh |-> problem.mesh,
                      indicators |-> IF UniformRefinement(ct, pe)
                                     THEN Unbound ELSE indicators,
                      result |-> next_mesh]),
                 !.init_meshes = Append(@, [it |-> OuterIteration,
                                            mesh |-> next_mesh])]
    /\ refined_mesh' = next_mesh
    /\ next_mesh' = next_mesh + 1
    /\ problem' = [problem EXCEPT !.mesh = next_mesh]
    /\ solve_pc' = "save_mesh"
    /\ UNCHANGED << parameters, ST, goal_functional, error, E_h, indicators,
                    primal_args, estimates, returned, primal_vars, exception, message, stage_log,
                    stress_vars >>

\* faulty variant: the stability factor is reset after each refinement pass
SolveSaveMeshResetST ==
    /\ solve_pc = "save_mesh"
    /\ outer_log' = [outer_log EXCEPT !.save_mesh = Append(@, refined_mesh)]
    /\ ST' = InitialST
    /\ solve_pc' = "primal"
    /\ UNCHANGED << parameters, problem, goal_functional, error, E_h,
                    indicators, refined_mesh, next_mesh, primal_args, estimates,
                    returned, primal_vars, exception, message, stage_log,
                    stress_vars >>

\* lines 105-107: mesh = refined_mesh; save_mesh(mesh); back to "while True"
SolveSaveMesh ==
    /\ solve_pc = "save_mesh"
    /\ outer_log' = [outer_log EXCEPT !.save_mesh = Append(@, refined_mesh)]
    /\ solve_pc' = "primal"
    /\ UNCHANGED << parameters, problem, ST, goal_functional, error, E_h,
                    indicators, refined_mesh, next_mesh, primal_args, estimates,
                    returned, primal_vars, exception, message, stage_log,
                    stress_vars >>

NextSolve ==
    \/ SolveCallPrimal
    \/ SolvePrimalReturned
    \/ SolvePrimalRaised
    \/ SolveSkipPrimal
    \/ SolveDual
    \/ SolveEstimate
    \/ SolveSkipEstimate
    \/ SolveConverged
    \/ SolveErrorTooLarge
    \/ SolveMeshErrorUnbound
    \/ SolveFreeze
    \/ SolveRefine
    \/ SolveSaveMesh

\* ------------------------------- StructureProblem.update_fluid_stress
\* The shared interface is a chain of NumFacets facets of equal length; facet f
\* joins the fluid dofs f and f + 1.  The fluid space has one more dof that
\* lies on no interface facet.  One component of the traction is followed,
\* the one along the (constant) normal.  The traction handed over is linear
\* on each facet and may jump between facets: traction_F[f][a] is its value at
\* the local vertex a of facet f.  Dof vectors computed by the linear solve
\* are kept exactly, as numerators over a common denominator.
NumFacets    == 2    \* number of facets of the interface
MaxTraction  == 1    \* traction values range over -MaxTraction..MaxTraction

Facets         == 1 .. NumFacets
LocalVertices  == 1 .. 2
FluidDofs      == 1 .. NumFacets + 2
StructureDofs  == 1 .. NumFacets + 2
FacetDof(f, a) == f + a - 1

\* self.N_F = FacetNormal(Omega_F), self.N_S = FacetNormal(Omega_S): on the
\* shared interface the two outward normals are opposite
N_F == 1
N_S == 0 - 1

RECURSIVE Sum(_, _)
Sum(g, D) ==
    IF D = {} THEN 0
    ELSE LET x == CHOOSE y \in D : TRUE IN g[x] + Sum(g, D \ {x})

\* the integral over one facet of the product of two local basis functions
\* (in units of a sixth of the facet length)
FacetMass(a, b) == IF a = b THEN 2 ELSE 1

\* the integral over one facet of the local basis function a
FacetWeight(a) == Sum([b \in LocalVertices |-> FacetMass(a, b)], LocalVertices)

\* the integral over facet f of (local basis function a) * (field t)
FacetMoment(t, f, a) ==
    Sum([b \in LocalVertices |-> FacetMass(a, b) * t[f][b]], LocalVertices)

\* A_F = assemble(dot(test_F, trial_F)*d_FSI, exterior_facet_domains=..)
AssembleMass ==
    [i \in FluidDofs |-> [j \in FluidDofs |->
        Sum([q \in Facets \X LocalVertices \X LocalVertices |->
                IF FacetDof(q[1], q[2]) = i /\ FacetDof(q[1], q[3]) = j
                THEN FacetMass(q[2], q[3]) ELSE 0],
            Facets \X LocalVertices \X LocalVertices)]]

\* faulty variant: the load is assembled without the minus sign
AssembleLoadUnsigned(t) ==
    [i \in FluidDofs |->
        Sum([q \in Facets \X LocalVertices |->
                IF FacetDof(q[1], q[2]) = i
                THEN FacetMoment(t, q[1], q[2]) ELSE 0],
            Facets \X LocalVertices)]

\* B_F = assemble(-dot(test_F, dot(Sigma_F, N_F))*d_FSI, ..)
AssembleLoad(t) ==
    [i \in FluidDofs |->
        0 - Sum([q \in Facets \X LocalVertices |->
                    IF FacetDof(q[1], q[2]) = i
                    THEN FacetMoment(t, q[1], q[2]) ELSE 0],
                Facets \X LocalVertices)]

\* A_F.ident_zeros(): a row of zeros gets a one on the diagonal
IdentZeros(A) ==
    [i \in DOMAIN A |->
        IF \A j \in DOMAIN A : A[i][j] = 0
        THEN [j \in DOMAIN A |-> IF i = j THEN 1 ELSE 0]
        ELSE A[i]]

RemoveAt(seq, k) == SubSeq(seq, 1, k - 1) \o SubSeq(seq, k + 1, Len(seq))

\* determinant of the rows and columns of A listed in rows and cols
RECURSIVE Det(_, _, _)
Det(A, rows, cols) ==
    IF rows = << >> THEN 1
    ELSE Sum([k \in 1 .. Len(cols) |->
                 (IF k % 2 = 1 THEN 1 ELSE 0 - 1)
                   * A[rows[1]][cols[k]]
                   * Det(A, Tail(rows), RemoveAt(cols, k))],
             1 .. Len(cols))

DofSeq(n) == [i \in 1 .. n |-> i]

\* solve(A_F, self.G_F.vector(), B_F): the solution of A x = b, by Cramer's
\* rule, as numerators over the denominator det(A)
Solve(A, b) ==
    LET n == Len(A)
    IN  [num |-> [i \in 1 .. n |->
                    Det([r \in 1 .. n |-> [c \in 1 .. n |->
                             IF c = i THEN b[r] ELSE A[r][c]]],
                        DofSeq(n), DofSeq(n))],
         den |-> Det(A, DofSeq(n), DofSeq(n))]

\* the dof map of the problem: the structure numbers the interface vertices
\* in the opposite direction; its last dof lies on no interface facet
DofMapF2S(i) == NumFacets + 2 - i

\* problem.add_f2s(xs, xf): xs[sdofs] += xf[fdofs] over the interface dofs
AddF2S(xs, xf) ==
    [j \in StructureDofs |->
        xs[j] + Sum([i \in 1 .. NumFacets + 1 |->
                        IF DofMapF2S(i) = j THEN xf[i] ELSE 0],
                    1 .. NumFacets + 1)]

ZeroVector(dofs) == [num |-> [i \in dofs |-> 0], den |-> 1]

\* assemble(form, exterior_facet_domains=..) of a scalar P1 field given by
\* its dof vector x, vertex a of facet f being dof dof[f][a]
IntegrateDofs(x, dof) ==
    Sum([q \in Facets \X LocalVertices |->
            FacetWeight(q[2]) * x[dof[q[1]][q[2]]]],
        Facets \X LocalVertices)

\* lines 213-227: assemble the mass matrix and the load, ident_zeros, solve
StressProject ==
    /\ stress_pc = "project"
    /\ G_F' = Solve(IdentZeros(AssembleMass), AssembleLoad(traction_F))
    /\ stress_pc' = "transfer"
    /\ UNCHANGED << parameters, problem, solve_vars, primal_vars, exception,
                    message, stage_log, traction_F, G_S, integrals >>

\* lines 231-232: self.G_S.vector().zero(); add_f2s(G_S.vector(), G_F.vector())
StressTransfer ==
    /\ stress_pc = "transfer"
    /\ G_S' = [num |-> AddF2S(ZeroVector(StructureDofs).num, G_F.num),
               den |-> G_F.den]
    /\ stress_pc' = "debug"
    /\ UNCHANGED << parameters, problem, solve_vars, primal_vars, exception,
                    message, stage_log, traction_F, G_F, integrals >>

\* debug_stress_transfer: the integral of the normal traction, of the
\* projected (and negated) normal traction, of the transferred projection
DebugStressTransfer ==
    /\ stress_pc = "debug"
    /\ integrals' =
         [I0 |-> << Sum([q \in Facets \X LocalVertices |->
                           FacetWeight(q[2]) * traction_F[q[1]][q[2]]
                             * N_F * N_F],
                        Facets \X LocalVertices), 1 >>,
          I1 |-> << 0 - N_F * IntegrateDofs(G_F.num,
                        [f \in Facets |-> [a \in LocalVertices |->
                            FacetDof(f, a)]]), G_F.den >>,
          I2 |-> << N_S * IntegrateDofs(G_S.num,
                        [f \in Facets |-> [a \in LocalVertices |->
                            DofMapF2S(FacetDof(f, a))]]), G_S.den >>]
    /\ stress_pc' = "done"
    /\ UNCHANGED << parameters, problem, solve_vars, primal_vars, exception,
                    message, stage_log, traction_F, G_F, G_S >>

NextStress ==
    \/ StressProject
    \/ StressTransfer
    \/ DebugStressTransfer

\* update_fluid_stress is not being executed
StressIdle ==
    /\ stress_pc = "idle"
    /\ traction_F = [f \in Facets |-> [a \in LocalVertices |-> 0]]
    /\ G_F = ZeroVector(FluidDofs)
    /\ G_S = ZeroVector(StructureDofs)
    /\ integrals = Unbound

\* ------------------------------------------------------------ initial states
\* The state of solve_primal's locals before solve_primal is entered.
PrimalIdle ==
    /\ ST_arg = InitialST
    /\ t0 = 0 /\ t1 = 0 /\ dt = 0 /\ at_end = FALSE /\ timestep_counter = 0
    /\ integrated_goal_functional = 0 /\ old_goal_functional = 0
    /\ p_goal_functional = Unbound
    /\ iter = 0 /\ itertol = 1 /\ increment = 0 /\ U_S0 = 0
    /\ F = FluidInit /\ S = StructureInit(problem) /\ M = MeshInit
    /\ series = << >> /\ fsi_iter_rec = Unbound /\ goal_values = {}
    /\ final_rec = Unbound /\ dofs_rec = Unbound
    /\ calls = [F |-> 0, S |-> 0, M |-> 0]
    /\ step_no = 0
    /\ primal_result = Unbound
    /\ stage_log = << >>

\* FSISolver.solve, lines 36-47: ST = 1.0, goal_functional = None
SolveEntered ==
    /\ solve_pc = "primal"
    /\ ST = InitialST
    /\ goal_functional = Unbound
    /\ error = 0 /\ E_h = Unbound /\ indicators = Unbound
    /\ refined_mesh = 0 /\ next_mesh = 1
    /\ outer_log = [solve_dual |-> 0, errors |-> << >>,
                    primal_results |-> << >>, refine |-> << >>,
                    init_meshes |-> << >>, save_mesh |-> << >>]
    /\ primal_args = << >>
    /\ estimates = << >>
    /\ returned = Unbound
    /\ exception = "none"
    /\ message = Unbound

\* The whole program: every configuration of the outer loop, with a primal
\* solve over a short time interval.
Init ==
    /\ parameters \in
         [tolerance : -1 .. MaxTol, w_h : 1 .. MaxWh,
          solve_primal : BOOLEAN, solve_dual : BOOLEAN,
          estimate_error : BOOLEAN,
          uniform_timestep : BOOLEAN, maximum_iterations : {MaxIter},
          initial_timestep : {1}]
    /\ problem \in [end_time : {MaxT - 1}, structure_initial : {0}, mesh : {0}]
    /\ SolveEntered
    /\ primal_pc = "idle"
    /\ PrimalIdle
    /\ StressIdle

Next == NextSolve \/ NextPrimal

Spec == Init /\ [][Next]_vars

\* solve_primal alone, called once, over every primal configuration.
InitPrimal ==
    /\ parameters \in
         [tolerance : {0}, w_h : {1},
          solve_primal : {TRUE}, solve_dual : {FALSE},
          estimate_error : {FALSE},
          uniform_timestep : BOOLEAN, maximum_iterations : 0 .. MaxIter,
          initial_timestep : 1 .. MaxDt]
    /\ problem \in [end_time : 1 .. MaxT, structure_initial : Disp, mesh : {0}]
    /\ SolveEntered
    /\ primal_pc = "start"
    /\ PrimalIdle
    /\ StressIdle

SpecPrimal == InitPrimal /\ [][NextPrimal]_vars

\* update_fluid_stress alone, called on a fresh StructureProblem (G_F and G_S
\* are zero functions), over every traction field of the interface.
InitStress ==
    /\ parameters \in
         [tolerance : {0}, w_h : {1},
          solve_primal : {TRUE}, solve_dual : {FALSE},
          estimate_error : {FALSE},
          uniform_timestep : {TRUE}, maximum_iterations : {MaxIter},
          initial_timestep : {1}]
    /\ problem \in [end_time : {MaxT}, structure_initial : {0}, mesh : {0}]
    /\ SolveEntered
    /\ primal_pc = "idle"
    /\ PrimalIdle
    /\ stress_pc = "project"
    /\ traction_F \in [Facets -> [LocalVertices ->
                                    (0 - MaxTraction) .. MaxTraction]]
    /\ G_F = ZeroVector(FluidDofs)
    /\ G_S = ZeroVector(StructureDofs)
    /\ integrals = Unbound

SpecStress == InitStress /\ [][NextStress]_vars

\* ==================================================================== claims
\* A time step is being executed: between the start of the step (line 82) and
\* the end of its commit (line 182).
CouplingPcs == {"F_step", "FS_transfer", "S_step", "SM_transfer", "M_step",
                "MF_transfer", "increment", "check"}
InStep == primal_pc \in CouplingPcs \cup {"save", "commit", "update_extra"}

\* C1: for every maximum_iterations N, a coupling loop that never satisfies
\* increment < itertol ends in the RuntimeError, raised during iteration N
\* after exactly N executions of F.step, S.step and M.step: the loop is never
\* left towards the commit without convergence, the error is never raised in
\* another iteration, and no more than N iterations are run.
C1_FatalExactlyAtMaxIter ==
    LET N == parameters.maximum_iterations
    IN  /\ (primal_pc = "raised" /\ exception = "RuntimeError")
             => (iter + 1 = N /\ calls = [F |-> N, S |-> N, M |-> N])
        /\ primal_pc = "save"
             => (calls.S >= 1 /\ Converged(increment, itertol))
        /\ calls.F <= N /\ calls.S <= N /\ calls.M <= N

\* The run that has returned consisted of n uniform steps of size dt with
\* T = n*dt, and the functional was the same v at every step.
ConstantOverUniformSteps(v) ==
    /\ primal_pc = "returned"
    /\ parameters.uniform_timestep
    /\ timestep_counter * parameters.initial_timestep = problem.end_time
    /\ goal_values = {v}

\* C2 (as claimed): with the uniform policy, T = n*dt and the functional equal
\* to the same v at every one of the n steps, the integral handed to
\* save_goal_functional_final is v*T.
C2_ConstantFunctionalIntegral ==
    \A v \in GoalValues :
        ConstantOverUniformSteps(v) => Val(final_rec)[2] = v * problem.end_time

\* C2 (amended): under the same conditions the integral is v*T - v*dt/2, the
\* first interval being integrated from the assumed value 0 at t = 0.
C2_ConstantFunctionalIntegralAmended ==
    \A v \in GoalValues :
        ConstantOverUniformSteps(v)
        => 2 * Val(final_rec)[2]
             = v * (2 * problem.end_time - parameters.initial_timestep)

\* a uniform run of three steps of size 1 up to T = 3 with a constant, nonzero
\* functional has returned
C2_Witness ==
    /\ primal_pc = "returned"
    /\ parameters.uniform_timestep
    /\ parameters.initial_timestep = 1 /\ problem.end_time = 3
    /\ timestep_counter = 3
    /\ goal_values = {2}
    /\ Val(final_rec)[2] = 5

\* C3: with the uniform policy the t1 of successive time steps strictly
\* increase, and in every executed step dt = t1 - t0.  (Stated for runs whose
\* coupling loop has at least one iteration.)
C3_TimeStrictlyIncreasing ==
    /\ [](parameters.uniform_timestep /\ InStep => dt = t1 - t0)
    /\ [][ ( /\ parameters.uniform_timestep
             /\ parameters.maximum_iterations >= 1
             /\ primal_pc = "end_check"
             /\ primal_pc' = "step_begin" ) => t1' > t1 ]_vars

\* C4: with the uniform policy, in every state of an executing time step
\* t0 < t1 <= T, and at_end is true exactly when t1 has reached T.  (Stated
\* for runs whose coupling loop has at least one iteration.)
C4_TimeStepRecordInvariant ==
    (parameters.uniform_timestep /\ parameters.maximum_iterations >= 1 /\ InStep)
        => ( /\ t0 < t1
             /\ t1 <= problem.end_time
             /\ at_end <=> (t1 >= problem.end_time) )

C6_FreezeKeepsMesh ==
    \A k \in 1 .. Len(estimates) :
        ( /\ estimates[k].error > parameters.tolerance
          /\ estimates[k].E_h <= parameters.w_h * parameters.tolerance )
        => ( /\ \A i \in 1 .. Len(outer_log.refine) :
                    outer_log.refine[i].it # k
             /\ \A i \in 1 .. Len(outer_log.init_meshes) :
                    outer_log.init_meshes[i].it # k
             /\ (parameters.solve_primal /\ Len(primal_args) > k)
                    => primal_args[k + 1].mesh = primal_args[k].mesh )

\* the first iteration froze the mesh at the boundary E_h = w_h*tolerance and
\* the second primal solve has been started on the same mesh
C6_Witness ==
    /\ Len(primal_args) = 2
    /\ estimates[1].error > parameters.tolerance
    /\ estimates[1].E_h = parameters.w_h * parameters.tolerance
    /\ outer_log.save_mesh = << primal_args[1].mesh >>
    /\ primal_args[2].mesh = primal_args[1].mesh

\* C7: with solve_primal enabled, when the first outer iteration's error is
\* <= tolerance, solve returns after one solve_primal call and without any
\* refinement, init_meshes or save_mesh.
C7_ImmediateStop ==
    ( /\ parameters.solve_primal
      /\ Len(outer_log.errors) >= 1
      /\ outer_log.errors[1] <= parameters.tolerance
      /\ solve_pc # "check" )
    => ( /\ solve_pc = "returned"
         /\ Len(primal_args) = 1
         /\ outer_log.refine = << >>
         /\ outer_log.init_meshes = << >>
         /\ outer_log.save_mesh = << >> )

\* solve has returned from a first iteration whose estimated error equals
\* the tolerance
C7_Witness ==
    /\ solve_pc = "returned"
    /\ parameters.solve_primal /\ parameters.estimate_error
    /\ outer_log.errors = << parameters.tolerance >>
    /\ Len(primal_args) = 1

\* C8: solve returns exactly when the error of the current outer iteration
\* is <= tolerance, and the value returned is the goal functional returned by
\* the primal solve of that same iteration.
C8_ReturnsIffErrorSmallEnough ==
    LET n == Len(outer_log.errors)
    IN  /\ solve_pc = "returned"
             => ( /\ n >= 1 /\ outer_log.errors[n] <= parameters.tolerance
                  /\ parameters.solve_primal
                       => ( /\ Len(outer_log.primal_results) = n
                            /\ returned =
                                 Bound(Bound(outer_log.primal_results[n])) ) )
        /\ solve_pc \in {"check_mesh", "save_mesh"}
             => outer_log.errors[n] > parameters.tolerance
        /\ solve_pc # "returned" => returned = Unbound

\* solve has returned in its second outer iteration, with the value of the
\* second primal solve, which differs from the first
C8_Witness ==
    /\ solve_pc = "returned"
    /\ Len(outer_log.errors) = 2
    /\ Len(outer_log.primal_results) = 2
    /\ outer_log.primal_results[1] # outer_log.primal_results[2]
    /\ returned = Bound(Bound(outer_log.primal_results[2]))

\* C9: with estimate_error disabled, for every tolerance, solve makes one
\* outer iteration: it never gets to the check of E_h, never refines or saves
\* a mesh, and does not raise a NameError.
C9_NoEstimateConvergesImmediately ==
    ~ parameters.estimate_error
    => ( /\ solve_pc \notin {"check_mesh", "save_mesh"}
         /\ Len(outer_log.errors) <= 1
         /\ outer_log.refine = << >>
         /\ exception # "NameError" )

\* C10: the ST given to the first solve_primal is 1, the ST given to the k-th
\* is the one returned by the estimate of iteration k - 1, and at every moment
\* ST is the value returned by the last estimate_error call (no time step,
\* coupling iteration, freeze or refinement changes it).
C10_STOnlyFromEstimator ==
    /\ ST = IF estimates = << >> THEN 1 ELSE estimates[Len(estimates)].ST
    /\ \A k \in 1 .. Len(primal_args) :
          IF k = 1 THEN primal_args[k].ST = 1
          ELSE /\ Len(estimates) >= k - 1
               /\ primal_args[k].ST = estimates[k - 1].ST
    /\ primal_pc \notin {"idle", "raised"}
          => ST_arg = primal_args[Len(primal_args)].ST

\* the second primal solve runs, in the commit of a time step, with the
\* ST = 2 that the first iteration's estimate returned
C10_Witness ==
    /\ Len(primal_args) = 2
    /\ Len(estimates) = 1 /\ estimates[1].ST = 2
    /\ primal_pc = "commit"
    /\ ST_arg = 2 /\ ST = 2

\* C11: on normal completion the value returned by solve_primal is the
\* goal-functional accumulator's value after the last time step (the
\* trapezoidal time-integral).  (Stated for runs that start with dt < T.)
C11_ReturnsAccumulatedIntegral ==
    (primal_pc = "returned" /\ parameters.initial_timestep < problem.end_time)
        => Val(primal_result) = integrated_goal_functional

\* The coupling loop of a time step has failed (line 161).
CouplingFailed == exception = "RuntimeError"

\* The calls that persist and commit a time step (lines 169-182).
CommitStages == {"write_primal_data", "F.update", "S.update", "M.update",
                 "F.update_extra"}

\* What has been persisted and committed once a coupling loop has failed:
\* only the earlier steps, and nothing of the outer iteration in progress.
NothingOfFailedStep ==
    /\ Len(series) = step_no
    /\ timestep_counter = step_no - 1
    /\ \A i \in 1 .. Len(stage_log) : stage_log[i] \notin CommitStages
    /\ fsi_iter_rec = Unbound \/ Val(fsi_iter_rec)[1] < t1
    /\ final_rec = Unbound /\ dofs_rec = Unbound /\ primal_result = Unbound
    /\ solve_pc \in {"primal", "raised"}
    /\ Len(outer_log.primal_results) = Len(primal_args) - 1
    /\ Len(outer_log.errors) = Len(primal_args) - 1
    /\ Len(estimates) <= Len(primal_args) - 1
    /\ Len(outer_log.save_mesh) = Len(primal_args) - 1
    /\ returned = Unbound

\* C12: once the coupling loop of a time step fails, nothing of that step is
\* persisted or committed, no goal-functional record is saved for it, no
\* further time step starts, and solve runs no dual solve, estimate,
\* refinement or save_mesh afterwards and returns no value.
C12_CouplingFailureIsFatal ==
    [][ /\ CouplingFailed' => NothingOfFailedStep'
        /\ CouplingFailed =>
             UNCHANGED << parameters, problem, ST, goal_functional, error, E_h,
                          indicators, refined_mesh, next_mesh, outer_log,
                          primal_args, estimates, returned, ST_arg, time_vars,
                          goal_vars, iter_vars, adapters, out_vars, exception,
                          message, stage_log >> ]_vars

\* the second primal solve failed in its second time step, after a first
\* step was committed, and the failure has left solve
C12_Witness ==
    /\ CouplingFailed
    /\ solve_pc = "raised"
    /\ Len(primal_args) = 2
    /\ step_no = 2 /\ timestep_counter = 1
    /\ Len(outer_log.save_mesh) = 1

\* C13: with the adaptive policy every executed step has dt > 0 and
\* t1 <= T, and the next interval is t0 := t1, t1 := t1 + dt with the dt
\* returned by the step-size formula, so that the t1 of successive steps
\* strictly increase.  (Stated for runs whose coupling loop has at least one
\* iteration.)
C13_AdaptiveStepsIncreaseToT ==
    /\ []( ( /\ ~ parameters.uniform_timestep
             /\ parameters.maximum_iterations >= 1
             /\ InStep )
           => (dt > 0 /\ t1 <= problem.end_time) )
    /\ [][ ( /\ ~ parameters.uniform_timestep
             /\ parameters.maximum_iterations >= 1
             /\ primal_pc = "end_check"
             /\ primal_pc' = "step_begin" )
           => (t0' = t1 /\ t1' = t1 + dt' /\ t1' > t1) ]_vars

\* C14: when the coupling iteration fails fatally, the exception that reaches
\* the caller carries the time t1 of the failing step, the number of
\* iterations used and the last increment.
C14_FailureCarriesContext ==
    CouplingFailed
    => ( /\ {"t1", "iterations", "increment"} \subseteq DOMAIN message
         /\ message.t1 = t1
         /\ message.iterations = iter + 1
         /\ message.increment = increment )

\* two integrals kept as << numerator, denominator >> are the same number
SameIntegral(p, q) == p[2] # 0 /\ q[2] # 0 /\ p[1] * q[2] = q[1] * p[2]

CouplingStages == << "F.step", "F.compute_fluid_stress", "S.update_fluid_stress",
                     "S.step", "M.update_structure_displacement", "M.step",
                     "F.update_mesh_displacement" >>

\* The calls of the current time step that belong to its coupling loop.
IsCouplingStage(e) == e \notin CommitStages
CouplingLog == SelectSeq(stage_log, IsCouplingStage)

\* C16: in every coupling iteration the stages run in the order F.step,
\* stress transfer, S.step, displacement transfer, M.step, mesh transfer,
\* none skipped, repeated or reordered, and each stage works on the output of
\* the stage before it in the same iteration: S.step on the stress of this
\* iteration's F.step, M.step on this iteration's U_S, the mesh transfer and
\* the next F.step on this iteration's U_M.
C16_GaussSeidelOrder ==
    /\ \A i \in 1 .. Len(CouplingLog) :
          CouplingLog[i] = CouplingStages[((i - 1) % Len(CouplingStages)) + 1]
    /\ \A i \in 1 .. Len(CouplingLog) : stage_log[i] = CouplingLog[i]
    /\ primal_pc \in {"increment", "check"}
          => Len(CouplingLog) = Len(CouplingStages) * (iter + 1)
    /\ primal_pc = "F_step"
          => Len(CouplingLog) = Len(CouplingStages) * iter
    /\ primal_pc \in {"S_step", "SM_transfer", "M_step"}
          => S.G_S = ComputeFluidStress(F.u1, M.u1)
    /\ primal_pc \in {"M_step", "MF_transfer", "increment", "check"}
          => M.displacement = S.u1
    /\ primal_pc \in {"increment", "check"}
          => (F.x1 = RefCoord + M.u1 /\ F.w = << F.x1 - F.x0, dt >>)
    /\ (primal_pc = "F_step" /\ iter >= 1)
          => (F.x1 = RefCoord + M.u1 /\ M.displacement = S.u1)

\* the second iteration of a time step has run all its stages, on nonzero
\* fluid, structure and mesh solutions
C16_Witness ==
    /\ primal_pc = "check"
    /\ iter = 1
    /\ Len(stage_log) = 2 * Len(CouplingStages)
    /\ F.u1 = 1 /\ S.u1 = 1 /\ M.u1 = 1
    /\ S.G_S[1] = 1 /\ M.displacement = 1 /\ F.x1 = RefCoord + 1

\* The calls after the coupling loop of a time step, in the order of lines
\* 171-182.
PostStages == << "write_primal_data", "F.update", "S.update", "M.update",
                 "F.update_extra" >>

IsCommitStage(e) == e \in CommitStages
CommitLog == SelectSeq(stage_log, IsCommitStage)

\* C17: in every time step, after the coupling loop, write_primal_data at t1,
\* then F.update, S.update, M.update, then F.update_extra happen in this
\* order, once each, and only then the end-of-run check and the choice of the
\* next step; F.update_extra never runs before F.update of the step nor
\* during the coupling iterations.
C17_PostConvergenceOrder ==
    /\ Len(CommitLog) <= Len(PostStages)
    /\ \A i \in 1 .. Len(CommitLog) : CommitLog[i] = PostStages[i]
    /\ stage_log = CouplingLog \o CommitLog
    /\ primal_pc \in CouplingPcs \cup {"save"} => CommitLog = << >>
    /\ primal_pc = "commit" => CommitLog = << "write_primal_data" >>
    /\ primal_pc = "update_extra"
          => CommitLog = SubSeq(PostStages, 1, Len(PostStages) - 1)
    /\ primal_pc \in {"commit", "update_extra", "end_check"}
          => series[Len(series)] = t1
    /\ primal_pc \in {"end_check", "finalize", "returned"}
          => (CommitLog = PostStages /\ F.x0 = F.x1)
    /\ (primal_pc = "step_begin" /\ step_no >= 1) => CommitLog = PostStages
    /\ primal_pc \notin {"start", "idle"}
          => Len(series) = 1 + timestep_counter
                             + (IF primal_pc = "commit" THEN 1 ELSE 0)

\* the second time step, which took two coupling iterations and moved the
\* mesh, has been written, committed and tidied up, and the end-of-run check
\* is next
C17_Witness ==
    /\ primal_pc = "end_check"
    /\ step_no = 2 /\ timestep_counter = 2
    /\ iter = 1
    /\ Len(stage_log) = 2 * Len(CouplingStages) + Len(PostStages)
    /\ Len(series) = 3 /\ series[3] = t1
    /\ F.x1 = RefCoord + 1 /\ F.x0 = F.x1

\* Outer iteration k has gone through the freeze-or-refine branch.
BranchTaken(k) ==
    \/ k <= Len(outer_log.save_mesh)
    \/ (k = OuterIteration /\ solve_pc = "save_mesh")

\* The refinement calls (refine or refine_mesh) made by outer iteration k.
RefinementsOf(k) ==
    {i \in 1 .. Len(outer_log.refine) : outer_log.refine[i].it = k}

\* C18: an outer iteration that reaches the refine branch (error > tolerance
\* and E_h > w_h*tolerance) makes exactly one refinement call: refine (every
\* cell) exactly when the problem is in convergence-test mode with error
\* estimation off, and otherwise refine_mesh with the indicators of this
\* iteration's estimate.
C18_RefinementKind ==
    /\ \A i \in 1 .. Len(outer_log.refine) :
          LET r == outer_log.refine[i]
          IN  /\ r.uniform <=> (r.convergence_test /\ ~ r.estimate_error)
              /\ r.indicators = IF r.uniform THEN Unbound ELSE Bound(r.it)
              /\ r.it <= Len(estimates)
              /\ estimates[r.it].error > parameters.tolerance
              /\ estimates[r.it].E_h > parameters.w_h * parameters.tolerance
    /\ \A k \in 1 .. Len(estimates) :
          ( /\ BranchTaken(k)
            /\ estimates[k].error > parameters.tolerance
            /\ estimates[k].E_h > parameters.w_h * parameters.tolerance )
          => Cardinality(RefinementsOf(k)) = 1

\* the first outer iteration refined every cell, the second refined by the
\* indicators of the second estimate although the problem was in
\* convergence-test mode
C18_Witness ==
    /\ Len(outer_log.refine) = 2
    /\ outer_log.refine[1].uniform
    /\ outer_log.refine[1].it = 1
    /\ ~ outer_log.refine[2].uniform
    /\ outer_log.refine[2].convergence_test
    /\ outer_log.refine[2].it = 2
    /\ outer_log.refine[2].indicators = Bound(2)

\* The init_meshes calls made by outer iteration k.
InitMeshesOf(k) ==
    {i \in 1 .. Len(outer_log.init_meshes) : outer_log.init_meshes[i].it = k}

\* Outer iteration k (which did not stop) took the freeze branch.
Froze(k) ==
    estimates[k].E_h <= MeshTolerance(parameters.w_h, parameters.tolerance)

\* C19 (as claimed): after every non-terminal outer iteration, in the freeze
\* branch as in the refine branch, init_meshes has been called with the
\* resulting mesh and that mesh has been saved, before the next primal solve
\* starts.
C19_ReinitAndSaveInBothBranches ==
    /\ \A k \in 1 .. Len(outer_log.save_mesh) :
          /\ \E i \in InitMeshesOf(k) :
                outer_log.init_meshes[i].mesh = outer_log.save_mesh[k]
          /\ (parameters.solve_primal /\ Len(primal_args) > k)
                => primal_args[k + 1].mesh = outer_log.save_mesh[k]
    /\ parameters.solve_primal
          => Len(primal_args) <= Len(outer_log.save_mesh) + 1

\* C19 (amended): after every non-terminal outer iteration the resulting mesh
\* is saved before the next primal solve starts; init_meshes is called, once
\* and with that mesh, in the refine branch only: the freeze branch saves the
\* mesh the iteration was given and calls init_meshes not at all.
C19_SaveInBothReinitOnRefine ==
    /\ \A k \in 1 .. Len(outer_log.save_mesh) :
          /\ k <= Len(estimates)
          /\ IF Froze(k)
             THEN /\ InitMeshesOf(k) = {}
                  /\ RefinementsOf(k) = {}
                  /\ k = 1 \/ outer_log.save_mesh[k] = outer_log.save_mesh[k - 1]
                  /\ parameters.solve_primal
                        => outer_log.save_mesh[k] = primal_args[k].mesh
             ELSE /\ Cardinality(InitMeshesOf(k)) = 1
                  /\ \A i \in InitMeshesOf(k) :
                        outer_log.init_meshes[i].mesh = outer_log.save_mesh[k]
                  /\ \A i \in RefinementsOf(k) :
                        outer_log.refine[i].result = outer_log.save_mesh[k]
                  /\ parameters.solve_primal
                        => outer_log.save_mesh[k] # primal_args[k].mesh
          /\ (parameters.solve_primal /\ Len(primal_args) > k)
                => primal_args[k + 1].mesh = outer_log.save_mesh[k]
    /\ parameters.solve_primal
          => Len(primal_args) <= Len(outer_log.save_mesh) + 1

\* two non-terminal outer iterations are complete: the first froze the mesh,
\* the second refined it, and only the second called init_meshes
C19_Witness ==
    /\ Len(outer_log.save_mesh) = 2
    /\ parameters.solve_primal /\ Len(primal_args) = 2
    /\ Froze(1) /\ ~ Froze(2)
    /\ outer_log.save_mesh[1] = primal_args[1].mesh
    /\ outer_log.save_mesh[2] # outer_log.save_mesh[1]
    /\ Len(outer_log.init_meshes) = 1
    /\ outer_log.init_meshes[1].it = 2
    /\ outer_log.init_meshes[1].mesh = outer_log.save_mesh[2]

\* M.step has been called in the current time step and its result U_M has
\* been handed to the fluid (line 127); the step is not committed yet.
MeshStepPending ==
    primal_pc \in {"increment", "check", "save"} /\ calls.M >= 1

\* C20 (as claimed): M.step does not commit and M.solution() is the most
\* recently committed field, the one of the last step that was followed by
\* update: a step without update does not change what solution() returns.
C20_SolutionIsCommittedField ==
    [][ /\ primal_pc = "M_step"
           => (M'.u0 = M.u0 /\ MeshSolution(M') = MeshSolution(M))
        /\ primal_pc \notin {"idle", "start"} => MeshSolution(M) = M.u0 ]_vars

\* C20 (amended): M.step does not commit (u0 is left alone), and
\* M.solution() is the field of the most recent step, committed or not: after
\* a step it is that step's U_M, and update, which commits it, does not
\* change what solution() returns.
C20_SolutionIsLatestStep ==
    [][ /\ primal_pc = "M_step" => M'.u0 = M.u0
        /\ MeshStepPending => MeshSolution(M) = F.x1 - RefCoord
        /\ primal_pc = "commit"
           => ( /\ MeshSolution(M') = MeshSolution(M)
                /\ M'.u0 = MeshSolution(M') ) ]_vars

\* the solution is about to be extracted and written (line 169) in the
\* second time step, after an M.step whose result differs from the committed
\* field
C20_Witness ==
    /\ primal_pc = "save"
    /\ step_no = 2
    /\ calls.M >= 1
    /\ M.u0 = 1
    /\ MeshSolution(M) = 0
    /\ F.x1 = RefCoord

\* C21: for every maximum_iterations >= 0, a time step is written and
\* committed only if the coupling loop of that step reached
\* increment < itertol; the iteration count recorded for the step is then
\* between 1 and maximum_iterations and a goal-functional value has been
\* evaluated for it.
C21_CommitOnlyAfterConvergence ==
    primal_pc \in {"save", "commit", "update_extra", "end_check"}
    => ( /\ calls.S >= 1
         /\ Converged(increment, itertol)
         /\ fsi_iter_rec = Bound(<< t1, iter + 1 >>)
         /\ 1 <= iter + 1 /\ iter + 1 <= parameters.maximum_iterations
         /\ p_goal_functional # Unbound )

\* C22: no coupling iteration changes the previous-position geometry x0 of
\* the fluid: F.update_mesh_displacement writes only the current geometry x1
\* and the mesh velocity w = (x1 - x0)/dt, so all iterations of a time step
\* compute w against the same x0; x0 changes only in F.update_extra, where it
\* becomes the current geometry x1.
C22_PreviousGeometryFrame ==
    [][ /\ primal_pc \in CouplingPcs => F'.x0 = F.x0
        /\ primal_pc = "MF_transfer"
              => ( /\ F'.x1 = RefCoord + M.u1
                   /\ F'.w = << F'.x1 - F.x0, dt >>
                   /\ F'.u0 = F.u0 /\ F'.u1 = F.u1 )
        /\ F'.x0 # F.x0 => primal_pc = "update_extra"
        /\ primal_pc = "update_extra" => (F'.x0 = F.x1 /\ F'.x1 = F.x1) ]_vars

\* in the second time step, whose previous geometry was moved by the first
\* step, the second coupling iteration has computed the mesh velocity of a
\* mesh that moved back, against that same previous geometry
C22_Witness ==
    /\ primal_pc = "increment"
    /\ step_no = 2
    /\ iter = 1 /\ calls.M = 2
    /\ F.x0 = RefCoord + 1
    /\ F.x1 = RefCoord
    /\ F.w = << 0 - 1, dt >>

\* solve_primal is sequential code: as long as a statement remains to be
\* executed, one is.
SpecPrimalFair == SpecPrimal /\ WF_vars(NextPrimal)

\* The uniform policy, with a coupling loop that has iterations to run.
UniformRun == parameters.uniform_timestep /\ parameters.maximum_iterations >= 1

\* The time-stepping loop has been left through "if at_end" (lines 185-190).
LoopLeft == primal_pc \in {"finalize", "returned"}

\* C23: under the uniform policy (initial dt > 0, T > 0), unless a coupling
\* loop fails, the time-stepping loop terminates; the last executed step has
\* t1 = T; the only step executed with at_end true is the last one; save_dofs
\* and save_goal_functional_final are each called once, save_dofs with a step
\* counter equal to the number of steps committed.
C23_UniformRunTerminatesAtT ==
    /\ UniformRun => <>(primal_pc = "returned" \/ CouplingFailed)
    /\ [](UniformRun =>
            /\ at_end => t1 = problem.end_time
            /\ LoopLeft
                  => ( /\ at_end /\ t1 = problem.end_time
                       /\ series[Len(series)] = problem.end_time
                       /\ timestep_counter = step_no
                       /\ Len(series) = 1 + timestep_counter
                       /\ dofs_rec = Bound(timestep_counter) )
            /\ ~ LoopLeft => (dofs_rec = Unbound /\ final_rec = Unbound)
            /\ primal_pc = "returned" <=> final_rec # Unbound)
    /\ [][ UniformRun =>
            /\ (at_end /\ primal_pc # "step_begin") => step_no' = step_no
            /\ dofs_rec # Unbound => dofs_rec' = dofs_rec
            /\ final_rec # Unbound => final_rec' = final_rec ]_vars

\* a uniform run with dt = 2 up to T = 3 has returned after two committed
\* steps, the last one cut to dt = 1 and ending at T
C23_Witness ==
    /\ primal_pc = "returned"
    /\ parameters.uniform_timestep
    /\ parameters.initial_timestep = 2 /\ problem.end_time = 3
    /\ series = << 0, 2, 3 >>
    /\ dt = 1 /\ at_end
    /\ dofs_rec = Bound(2) /\ final_rec # Unbound

====
